---------------------------- MODULE Spec2Model ----------------------------
(***************************************************************************)
(* A model of pdf_updater.py: the key-signature parser (parse_key), the    *)
(* PDF timestamp codec (fmt_timestamp, parse_timestamp_str), the field     *)
(* mapping generator (dict_to_metadata) and the batch loop (update_pdfs).  *)
(*                                                                         *)
(* A Python str is a sequence of one-character strings.  None is the empty *)
(* tuple.  A call that may raise returns a record [exc, val] whose exc is  *)
(* "" when the call returned and the exception's name when it raised.      *)
(***************************************************************************)
EXTENDS Integers, Sequences, FiniteSets, TLC

VARIABLES
    key,            \* parse_key: the argument
    key_res,        \* parse_key: [exc, val] once called
    key_pc,         \* "call" before parse_key ran, "done" after
    ts_orig,        \* timestamp codec: the datetime given first (NoTimestamp if a str was given)
    ts_orig_str,    \* timestamp codec: the str given first (<<>> if a datetime was given)
    timestamp,      \* timestamp codec: the current datetime
    timestamp_str,  \* timestamp codec: the current str
    ts_exc,         \* timestamp codec: "" or the name of the exception raised
    ts_ops,         \* timestamp codec: the calls made so far, in order
    libc_pads_year, \* whether the platform's strftime zero-pads %Y to 4 digits
    meta_dict,      \* dict_to_metadata: the argument, a sequence of <<name, value>> items
    meta_res,       \* dict_to_metadata: what dict(dict_to_metadata(meta_dict)) gave
    meta_pc,        \* "call" before, "done" after
    fs,             \* update_pdfs: the PDF directory, file name -> metadata stored in it
    fs0,            \* update_pdfs: the PDF directory as it was when update_pdfs started
    data,           \* update_pdfs: the rows read from the CSV file so far
    writes,         \* update_pdfs: the write_metadata calls made, in order
    stdout,         \* update_pdfs: the lines printed
    batch_exc,      \* update_pdfs: "" or the exception that left the loop
    batch_pc        \* "loop" while rows are read, "done" after the last row

key_vars == <<key, key_res, key_pc>>
ts_vars == <<ts_orig, ts_orig_str, timestamp, timestamp_str, ts_exc, ts_ops, libc_pads_year>>
meta_vars == <<meta_dict, meta_res, meta_pc>>
batch_vars == <<fs, fs0, data, writes, stdout, batch_exc, batch_pc>>
vars == <<key_vars, ts_vars, meta_vars, batch_vars>>

---------------------------------------------------------------------------
(* Python values and str methods.                                          *)

None == <<>>

Returned(v) == [exc |-> "", val |-> v]
Raised(e) == [exc |-> e, val |-> None]

UPPERCASE == <<"A", "B", "C", "D", "E", "F", "G", "H", "I", "J", "K", "L", "M",
               "N", "O", "P", "Q", "R", "S", "T", "U", "V", "W", "X", "Y", "Z">>
LOWERCASE == <<"a", "b", "c", "d", "e", "f", "g", "h", "i", "j", "k", "l", "m",
               "n", "o", "p", "q", "r", "s", "t", "u", "v", "w", "x", "y", "z">>

IndexIn(c, alphabet) ==
    IF \E i \in DOMAIN alphabet : alphabet[i] = c
    THEN CHOOSE i \in DOMAIN alphabet : alphabet[i] = c
    ELSE 0

\* str.lower() and str.upper(), character by character
lower(s) == [i \in DOMAIN s |->
                IF IndexIn(s[i], UPPERCASE) > 0 THEN LOWERCASE[IndexIn(s[i], UPPERCASE)] ELSE s[i]]
upper(s) == [i \in DOMAIN s |->
                IF IndexIn(s[i], LOWERCASE) > 0 THEN UPPERCASE[IndexIn(s[i], LOWERCASE)] ELSE s[i]]

\* s.replace(c, '') for a one-character c
remove_char(s, c) == SelectSeq(s, LAMBDA x : x # c)

startswith(s, prefix) ==
    /\ Len(prefix) <= Len(s)
    /\ SubSeq(s, 1, Len(prefix)) = prefix

endswith(s, suffix) ==
    /\ Len(suffix) <= Len(s)
    /\ SubSeq(s, Len(s) - Len(suffix) + 1, Len(s)) = suffix

\* s[i:], 0-based as in Python
slice_from(s, i) == SubSeq(s, i + 1, Len(s))

RECURSIVE join(_, _)
\* sep.join(parts)
join(sep, parts) ==
    IF Len(parts) = 0 THEN <<>>
    ELSE IF Len(parts) = 1 THEN parts[1]
    ELSE parts[1] \o sep \o join(sep, Tail(parts))

---------------------------------------------------------------------------
(* The key-signature tables.                                               *)

FLAT == "U+266D"
SHARP == "U+266F"

SP == " "

Flat == <<"F", "l", "a", "t">>
Sharp == <<"S", "h", "a", "r", "p">>
Major == <<"M", "a", "j", "o", "r">>
Minor == <<"M", "i", "n", "o", "r">>

Name3(note, accidental, mode) == join(<<SP>>, <<<<note>>, accidental, mode>>)
Name2(note, mode) == join(<<SP>>, <<<<note>>, mode>>)

KeyPairs == (-7..7) \X {0, 1}

KEY_MAP == [p \in KeyPairs |->
    CASE p = <<-7, 0>> -> Name3("C", Flat, Major)
      [] p = <<-6, 0>> -> Name3("G", Flat, Major)
      [] p = <<-5, 0>> -> Name3("D", Flat, Major)
      [] p = <<-4, 0>> -> Name3("A", Flat, Major)
      [] p = <<-3, 0>> -> Name3("E", Flat, Major)
      [] p = <<-2, 0>> -> Name3("B", Flat, Major)
      [] p = <<-1, 0>> -> Name2("F", Major)
      [] p = <<0, 0>> -> Name2("C", Major)
      [] p = <<1, 0>> -> Name2("G", Major)
      [] p = <<2, 0>> -> Name2("D", Major)
      [] p = <<3, 0>> -> Name2("A", Major)
      [] p = <<4, 0>> -> Name2("E", Major)
      [] p = <<5, 0>> -> Name2("B", Major)
      [] p = <<6, 0>> -> Name3("F", Sharp, Major)
      [] p = <<7, 0>> -> Name3("C", Sharp, Major)
      [] p = <<-7, 1>> -> Name3("A", Flat, Minor)
      [] p = <<-6, 1>> -> Name3("E", Flat, Minor)
      [] p = <<-5, 1>> -> Name3("B", Flat, Minor)
      [] p = <<-4, 1>> -> Name2("F", Minor)
      [] p = <<-3, 1>> -> Name2("C", Minor)
      [] p = <<-2, 1>> -> Name2("G", Minor)
      [] p = <<-1, 1>> -> Name2("D", Minor)
      [] p = <<0, 1>> -> Name2("A", Minor)
      [] p = <<1, 1>> -> Name2("E", Minor)
      [] p = <<2, 1>> -> Name2("B", Minor)
      [] p = <<3, 1>> -> Name3("F", Sharp, Minor)
      [] p = <<4, 1>> -> Name3("C", Sharp, Minor)
      [] p = <<5, 1>> -> Name3("G", Sharp, Minor)
      [] p = <<6, 1>> -> Name3("D", Sharp, Minor)
      [] p = <<7, 1>> -> Name3("A", Sharp, Minor)]

\* REV_KEY_MAP.get(name): the pair whose name it is, or None
REV_KEY_MAP_get(name) ==
    IF \E p \in KeyPairs : KEY_MAP[p] = name
    THEN CHOOSE p \in KeyPairs : KEY_MAP[p] = name
    ELSE None

---------------------------------------------------------------------------
(* parse_key                                                               *)

\* key.replace(' ', '').lower()
stripped(k) == lower(remove_char(k, SP))

part2_of(k) ==
    IF startswith(slice_from(k, 1), <<FLAT>>) \/ startswith(slice_from(k, 1), lower(Flat))
    THEN Flat
    ELSE IF startswith(slice_from(k, 1), <<SHARP>>) \/ startswith(slice_from(k, 1), lower(Sharp))
    THEN Sharp
    ELSE <<>>

part3_of(k) ==
    IF endswith(k, lower(Minor)) THEN Minor
    ELSE IF endswith(k, lower(Major)) THEN Major
    ELSE Major

\* f'{part1} {part2} {part3}'
lookup_key_of(part1, part2, part3) == part1 \o <<SP>> \o part2 \o <<SP>> \o part3

parse_key(k0) ==
    LET k == stripped(k0) IN
    IF Len(k) = 0 THEN Raised("IndexError")
    ELSE Returned(REV_KEY_MAP_get(
            lookup_key_of(upper(<<k[1]>>), part2_of(k), part3_of(k))))


\* The arguments parse_key is tried on: a note letter, an accidental and a mode
\* in several spellings, separated by up to MaxSpaces spaces; and the strings of
\* spaces alone.
MaxSpaces == 2

Spaces(n) == [i \in 1..n |-> SP]

NoteSpellings == {<<c>> : c \in {"A", "B", "C", "D", "E", "F", "G", "H",
                                   "a", "b", "c", "d", "e", "f", "g"}}

AccidentalSpellings ==
    {<<>>, <<FLAT>>, <<SHARP>>, <<"F", "l", SP, "a", "t">>, <<"#">>}
    \cup {Flat, lower(Flat), upper(Flat), Sharp, lower(Sharp), upper(Sharp)}

ModeSpellings ==
    {<<>>, <<"M", "a", SP, "j", "o", "r">>, <<"D", "o", "r", "i", "a", "n">>}
    \cup {Major, lower(Major), upper(Major), Minor, lower(Minor), upper(Minor)}

KeyInputs ==
    {Spaces(lead) \o note \o Spaces(sp1) \o acc \o Spaces(sp2) \o mode :
        lead \in 0..1, note \in NoteSpellings, sp1 \in 0..MaxSpaces,
        acc \in AccidentalSpellings, sp2 \in 0..MaxSpaces, mode \in ModeSpellings}
    \cup {Spaces(n) : n \in 0..MaxSpaces}

KeyIdle ==
    /\ key = <<>>
    /\ key_res = Returned(None)
    /\ key_pc = "idle"

InitKeyVars ==
    /\ key \in KeyInputs
    /\ key_res = Returned(None)
    /\ key_pc = "call"

ParseKey ==
    /\ key_pc = "call"
    /\ key_res' = parse_key(key)
    /\ key_pc' = "done"
    /\ UNCHANGED <<key, ts_vars, meta_vars, batch_vars>>

---------------------------------------------------------------------------
(* datetime, strftime and strptime as fmt_timestamp and                    *)
(* parse_timestamp_str use them.  A datetime is a record of its fields;    *)
(* tzinfo is None or <<utcoffset in seconds>>.                             *)

Digits == <<"0", "1", "2", "3", "4", "5", "6", "7", "8", "9">>
DIGIT == {Digits[i] : i \in DOMAIN Digits}
QUOTE == "'"

digit(n) == Digits[n + 1]
digit_val(c) == IndexIn(c, Digits) - 1

\* '%02d' % n
zfill2(n) == <<digit(n \div 10), digit(n % 10)>>

RECURSIVE decimal(_)
\* '%d' % n for n >= 0
decimal(n) == IF n < 10 THEN <<digit(n)>> ELSE decimal(n \div 10) \o <<digit(n % 10)>>

RECURSIVE to_int(_)
\* int(s) for a str of digits and spaces
to_int(s) ==
    IF Len(s) = 0 THEN 0
    ELSE IF s[Len(s)] = SP THEN to_int(SubSeq(s, 1, Len(s) - 1))
    ELSE 10 * to_int(SubSeq(s, 1, Len(s) - 1)) + digit_val(s[Len(s)])

\* s[i:j], 0-based as in Python
slice(s, i, j) == SubSeq(s, i + 1, IF j < Len(s) THEN j ELSE Len(s))

is_leap(year) == (year % 4 = 0) /\ ((year % 100 # 0) \/ (year % 400 = 0))

days_in_month(year, month) ==
    IF month = 2 THEN (IF is_leap(year) THEN 29 ELSE 28)
    ELSE IF month \in {4, 6, 9, 11} THEN 30
    ELSE 31

\* the conditions under which datetime(...) and timezone(...) do not raise ValueError
valid_datetime(year, month, day, hour, minute, second, tzinfo) ==
    /\ year \in 1..9999
    /\ month \in 1..12
    /\ day \in 1..days_in_month(year, month)
    /\ hour \in 0..23
    /\ minute \in 0..59
    /\ second \in 0..59
    /\ tzinfo # None => (tzinfo[1] > -86400 /\ tzinfo[1] < 86400)

datetime(y, mo, d, h, mi, s, tz) ==
    [year |-> y, month |-> mo, day |-> d, hour |-> h, minute |-> mi, second |-> s, tzinfo |-> tz]

NoTimestamp == datetime(0, 0, 0, 0, 0, 0, None)

RaisedTs(e) == [exc |-> e, val |-> NoTimestamp]

\* strftime('%Y'): glibc prints the year unpadded, other platforms pad it to 4 digits
strftime_Y(year, pads) ==
    IF pads /\ year < 1000
    THEN <<digit(year \div 1000), digit((year \div 100) % 10), digit((year \div 10) % 10), digit(year % 10)>>
    ELSE decimal(year)

\* strftime('%z'): '' for a naive datetime, else +HHMM, or +HHMMSS when the
\* offset has seconds
strftime_z(tzinfo) ==
    IF tzinfo = None THEN <<>>
    ELSE LET off == tzinfo[1]
             a == IF off < 0 THEN -off ELSE off
             hhmm == <<IF off < 0 THEN "-" ELSE "+">> \o zfill2(a \div 3600) \o zfill2((a % 3600) \div 60)
         IN IF a % 60 # 0 THEN hhmm \o zfill2(a % 60) ELSE hhmm

fmt_offset_of(offset) ==
    IF Len(offset) > 0
    THEN <<offset[1]>> \o slice(offset, 1, 3) \o <<QUOTE>> \o slice(offset, 3, 6) \o <<QUOTE>>
    ELSE <<>>

fmt_timestamp(t, pads) ==
    <<"D", ":">> \o strftime_Y(t.year, pads) \o zfill2(t.month) \o zfill2(t.day)
        \o zfill2(t.hour) \o zfill2(t.minute) \o zfill2(t.second)
        \o fmt_offset_of(strftime_z(t.tzinfo))

\* RE_OFFSET.sub(r'\1\2\3', s): a trailing [+-]dd'dd' loses its two quotes
RE_OFFSET_sub(s) ==
    LET n == Len(s) IN
    IF /\ n >= 7
       /\ s[n - 6] \in {"+", "-"}
       /\ s[n - 5] \in DIGIT /\ s[n - 4] \in DIGIT
       /\ s[n - 3] = QUOTE
       /\ s[n - 2] \in DIGIT /\ s[n - 1] \in DIGIT
       /\ s[n] = QUOTE
    THEN SubSeq(s, 1, n - 4) \o SubSeq(s, n - 2, n - 1)
    ELSE s

\* The regular expression strptime compiles 'D:%Y%m%d%H%M%S%z' to (with
\* IGNORECASE): one entry per group, each the group's alternatives in the order
\* the matcher tries them, an alternative being a sequence of character sets.
\* The strings of the model hold no '.', so the optional fraction of %z is left out.
D19 == DIGIT \ {"0"}
D05 == {"0", "1", "2", "3", "4", "5"}
SIGN == {"+", "-"}

format_regex == <<
    << <<{"D", "d"}, {":"}>> >>,
    << <<DIGIT, DIGIT, DIGIT, DIGIT>> >>,
    << <<{"1"}, {"0", "1", "2"}>>, <<{"0"}, D19>>, <<D19>> >>,
    << <<{"3"}, {"0", "1"}>>, <<{"1", "2"}, DIGIT>>, <<{"0"}, D19>>, <<D19>>, <<{SP}, D19>> >>,
    << <<{"2"}, {"0", "1", "2", "3"}>>, <<{"0", "1"}, DIGIT>>, <<DIGIT>> >>,
    << <<D05, DIGIT>>, <<DIGIT>> >>,
    << <<{"6"}, {"0", "1"}>>, <<D05, DIGIT>>, <<DIGIT>> >>,
    << <<SIGN, DIGIT, DIGIT, {":"}, D05, DIGIT, {":"}, D05, DIGIT>>,
       <<SIGN, DIGIT, DIGIT, {":"}, D05, DIGIT, D05, DIGIT>>,
       <<SIGN, DIGIT, DIGIT, {":"}, D05, DIGIT>>,
       <<SIGN, DIGIT, DIGIT, D05, DIGIT, {":"}, D05, DIGIT>>,
       <<SIGN, DIGIT, DIGIT, D05, DIGIT, D05, DIGIT>>,
       <<SIGN, DIGIT, DIGIT, D05, DIGIT>>,
       <<{"Z"}>> >> >>

alt_matches(s, pos, alt) ==
    /\ pos + Len(alt) - 1 <= Len(s)
    /\ \A i \in 1..Len(alt) : s[pos + i - 1] \in alt[i]

NoMatch == [ok |-> FALSE, groups |-> <<>>, end |-> 0]

RECURSIVE re_match(_, _, _, _)
\* format_regex.match(s): the first match in the matcher's backtracking order,
\* trying alternative ai of group gi at position pos
re_match(s, pos, gi, ai) ==
    IF gi > Len(format_regex) THEN [ok |-> TRUE, groups |-> <<>>, end |-> pos]
    ELSE IF ai > Len(format_regex[gi]) THEN NoMatch
    ELSE LET alt == format_regex[gi][ai] IN
         IF alt_matches(s, pos, alt)
         THEN LET rest == re_match(s, pos + Len(alt), gi + 1, 1) IN
              IF rest.ok
              THEN [ok |-> TRUE,
                    groups |-> <<SubSeq(s, pos, pos + Len(alt) - 1)>> \o rest.groups,
                    end |-> rest.end]
              ELSE re_match(s, pos, gi, ai + 1)
         ELSE re_match(s, pos, gi, ai + 1)

\* _strptime's decoding of the %z group: [exc, val] with val = <<gmtoff>>
gmtoff_of(z0) ==
    IF z0 = <<"Z">> THEN Returned(<<0>>)
    ELSE LET colon == z0[4] = ":"
             z1 == IF colon THEN slice(z0, 0, 3) \o slice_from(z0, 4) ELSE z0
             bad == colon /\ Len(z1) > 5 /\ z1[6] # ":"
             z == IF colon /\ Len(z1) > 5 THEN slice(z1, 0, 5) \o slice_from(z1, 6) ELSE z1
         IN IF bad \/ \E i \in 2..Len(z) : z[i] \notin DIGIT
            THEN Raised("ValueError")
            ELSE LET gmtoff == to_int(slice(z, 1, 3)) * 3600 + to_int(slice(z, 3, 5)) * 60
                                   + to_int(slice(z, 5, 7))
                 IN Returned(<<IF z[1] = "-" THEN -gmtoff ELSE gmtoff>>)

\* datetime.strptime(s, 'D:%Y%m%d%H%M%S%z')
strptime(s) ==
    LET found == re_match(s, 1, 1, 1) IN
    IF ~found.ok THEN RaisedTs("ValueError")
    ELSE IF found.end # Len(s) + 1 THEN RaisedTs("ValueError")
    ELSE LET g == found.groups
             tz == gmtoff_of(g[8])
         IN IF tz.exc # "" THEN RaisedTs("ValueError")
            ELSE IF ~valid_datetime(to_int(g[2]), to_int(g[3]), to_int(g[4]), to_int(g[5]),
                                    to_int(g[6]), to_int(g[7]), tz.val)
            THEN RaisedTs("ValueError")
            ELSE [exc |-> "",
                  val |-> datetime(to_int(g[2]), to_int(g[3]), to_int(g[4]), to_int(g[5]),
                                   to_int(g[6]), to_int(g[7]), tz.val)]

parse_timestamp_str(timestamp_str0) == strptime(RE_OFFSET_sub(timestamp_str0))

\* The datetimes fmt_timestamp is tried on, and the strs parse_timestamp_str is
\* tried on: the fields of D:YYYYMMDDHHMMSS and an offset, each well formed or
\* malformed in one way.
TsOffsets == {None, <<0>>, <<-18000>>, <<19800>>, <<-1800>>, <<86340>>, <<-86340>>, <<30>>}

TsValues ==
    {t \in {datetime(y, mo, d, h, 56, s, tz) :
                y \in {999, 2023, 2024}, mo \in {2, 12}, d \in {1, 17, 29}, h \in {0, 10},
                s \in {0, 5}, tz \in TsOffsets} :
        t.day <= days_in_month(t.year, t.month)}

PrefixTexts == {<<"D", ":">>, <<"d", ":">>, <<>>}
YearTexts == {<<"2", "0", "2", "3">>, <<"9", "9", "9">>, <<"0", "9", "9", "9">>, <<"2", "0", "a", "3">>}
MonthTexts == {<<"1", "2">>, <<"0", "2">>, <<"2">>, <<"1", "3">>}
DayTexts == {<<"1", "7">>, <<"3", "0">>, <<"7">>}
HourTexts == {<<"1", "0">>, <<"2", "4">>}
MinuteTexts == {<<"5", "6">>, <<"5">>}
SecondTexts == {<<"0", "0">>, <<"6", "0">>, <<"0">>}
OffsetTexts ==
    {<<>>, <<"Z">>,
     <<"-", "0", "5", QUOTE, "0", "0", QUOTE>>,
     <<"+", "0", "5", QUOTE, "3", "0", QUOTE>>,
     <<"+", "2", "3", QUOTE, "5", "9", QUOTE>>,
     <<"-", "0", "0", QUOTE, "0", "0", QUOTE>>,
     <<"+", "0", "0", QUOTE, "0", "0", QUOTE>>,
     <<"+", "2", "4", QUOTE, "0", "0", QUOTE>>,
     <<"+", "0", "5", QUOTE, "6", "0", QUOTE>>,
     <<"0", "5", QUOTE, "0", "0", QUOTE>>,
     <<"-", "0", "5", QUOTE, "0", "0">>,
     <<"-", "0", "5", "0", "0">>,
     <<"-", "0", "5", ":", "0", "0">>}

TsStrings ==
    {p \o y \o mo \o d \o h \o mi \o s \o off :
        p \in PrefixTexts, y \in YearTexts, mo \in MonthTexts, d \in DayTexts,
        h \in HourTexts, mi \in MinuteTexts, s \in SecondTexts, off \in OffsetTexts}

\* the number of codec calls made in a row: 2 is a round trip
MaxCalls == 2

TsIdle ==
    /\ ts_orig = NoTimestamp
    /\ ts_orig_str = <<>>
    /\ timestamp = NoTimestamp
    /\ timestamp_str = <<>>
    /\ ts_exc = ""
    /\ ts_ops = <<>>
    /\ libc_pads_year = TRUE

InitTsVars ==
    /\ libc_pads_year \in BOOLEAN
    /\ ts_exc = ""
    /\ ts_ops = <<>>
    /\ \/ /\ ts_orig \in TsValues
          /\ ts_orig_str = <<>>
       \/ /\ ts_orig = NoTimestamp
          /\ ts_orig_str \in TsStrings
    /\ timestamp = ts_orig
    /\ timestamp_str = ts_orig_str

\* whether the value at hand is a datetime (else it is a str)
HoldsTimestamp ==
    \/ ts_ops = <<>> /\ ts_orig # NoTimestamp
    \/ ts_ops # <<>> /\ ts_ops[Len(ts_ops)] = "parse_timestamp_str"

FmtTimestamp ==
    /\ ts_exc = ""
    /\ Len(ts_ops) < MaxCalls
    /\ HoldsTimestamp
    /\ timestamp_str' = fmt_timestamp(timestamp, libc_pads_year)
    /\ ts_ops' = Append(ts_ops, "fmt_timestamp")
    /\ UNCHANGED <<ts_orig, ts_orig_str, timestamp, ts_exc, libc_pads_year>>
    /\ UNCHANGED <<key_vars, meta_vars, batch_vars>>

ParseTimestampStr ==
    /\ ts_exc = ""
    /\ Len(ts_ops) < MaxCalls
    /\ ~HoldsTimestamp
    /\ LET r == parse_timestamp_str(timestamp_str) IN
        /\ timestamp' = r.val
        /\ ts_exc' = r.exc
    /\ ts_ops' = Append(ts_ops, "parse_timestamp_str")
    /\ UNCHANGED <<ts_orig, ts_orig_str, timestamp_str, libc_pads_year>>
    /\ UNCHANGED <<key_vars, meta_vars, batch_vars>>

---------------------------------------------------------------------------
(* dict_to_metadata.  A dict is the sequence of its <<key, value>> items,  *)
(* in insertion order.  The values a row holds are strs; the values of the *)
(* metadata are strs and ints, told apart by PyStr and PyInt.              *)

PyStr(s) == [type |-> "str", v |-> s]
PyInt(n) == [type |-> "int", v |-> n]

\* the items of the META_MAP literal, in source order
META_MAP == <<
    <<"/Author", "Composer">>,
    <<"/Title", "Title">>,
    <<"/Subject", "Genre">>,
    <<"/Keywords", "Tags">>,
    <<"/rating", "Rating">>,
    <<"/difficulty", "Difficulty">>,
    <<"/rating", "Rating">>,
    <<"/duration", "Duration">>,
    <<"/keysf", "Key">>,
    <<"/keysmi", "Key">> >>

\* the lookup made in META_MAP itself, whose keys are the target identifiers
META_MAP_has(name) == \E i \in DOMAIN META_MAP : META_MAP[i][1] = name

\* whether REV_META_MAP, dict((v, k) for (k, v) in META_MAP.items()), has the key
REV_META_MAP_has(name) == \E i \in DOMAIN META_MAP : META_MAP[i][2] = name

\* REV_META_MAP[name]: the last item of META_MAP with that value wins
REV_META_MAP_at(name) ==
    LET last == CHOOSE i \in DOMAIN META_MAP :
                    /\ META_MAP[i][2] = name
                    /\ \A j \in DOMAIN META_MAP : META_MAP[j][2] = name => j <= i
    IN META_MAP[last][1]

RECURSIVE dict_to_metadata(_)
\* The generator run to its end or to the exception it raises: the pairs it
\* yielded, the names it printed as 'Unknown Key:', and the exception ("" if none).
dict_to_metadata(items) ==
    IF Len(items) = 0 THEN [exc |-> "", yielded |-> <<>>, printed |-> <<>>]
    ELSE LET k == items[1][1]
             val == items[1][2]
             rest == dict_to_metadata(Tail(items))
         IN IF k = "Key"
            THEN LET key_sig == parse_key(val) IN
                 IF key_sig.exc # ""
                 THEN [exc |-> key_sig.exc, yielded |-> <<>>, printed |-> <<>>]
                 ELSE IF key_sig.val = None
                 THEN [exc |-> "TypeError", yielded |-> <<>>, printed |-> <<>>]
                 ELSE [exc |-> rest.exc,
                       yielded |-> << <<"/keysf", PyInt(key_sig.val[1])>>,
                                      <<"/keysmi", PyInt(key_sig.val[2])>> >> \o rest.yielded,
                       printed |-> rest.printed]
            ELSE IF REV_META_MAP_has(k)
            THEN [exc |-> rest.exc,
                  yielded |-> << <<REV_META_MAP_at(k), PyStr(val)>> >> \o rest.yielded,
                  printed |-> rest.printed]
            ELSE [exc |-> rest.exc,
                  yielded |-> rest.yielded,
                  printed |-> <<k>> \o rest.printed]

\* dict(pairs): a later pair overwrites an earlier one with the same key
dict(pairs) ==
    [k \in {pairs[i][1] : i \in DOMAIN pairs} |->
        LET last == CHOOSE i \in DOMAIN pairs :
                        /\ pairs[i][1] = k
                        /\ \A j \in DOMAIN pairs : pairs[j][1] = k => j <= i
        IN pairs[last][2]]

\* dict(dict_to_metadata(meta_dict)): the dict built (None if the generator
\* raised), with what the generator yielded and printed
consumed(g) ==
    [exc |-> g.exc,
     val |-> IF g.exc = "" THEN dict(g.yielded) ELSE None,
     yielded |-> g.yielded,
     printed |-> g.printed]

metadata_of(items) == consumed(dict_to_metadata(items))

\* The rows dict_to_metadata is tried on: up to MaxFields items with distinct names.
MaxFields == 3

PlainNames == {"Composer", "Title", "Genre", "Tags", "Rating", "Difficulty", "Duration",
               "Reference"}
PlainValues == {<<"X">>, <<"4", "6", "7">>}

KeyValues == {
    Name3("C", Sharp, Major),
    <<"B", FLAT, SP, "M", "i", "n", "o", "r">>,
    Name2("C", Major),
    <<"f", SP, SP, "m", "i", "n", "o", "r">>,
    Name3("G", Sharp, Major),
    <<"C", SP, "S", "h", "a", "r", "p">>,
    <<>> }

MetaItems == {<<n, v>> : n \in PlainNames, v \in PlainValues} \cup {<<"Key", v>> : v \in KeyValues}

MetaRows ==
    UNION {{r \in [1..n -> MetaItems] : \A i, j \in 1..n : i # j => r[i][1] # r[j][1]} :
            n \in 0..MaxFields}

NoMetadata == [exc |-> "", val |-> None, yielded |-> <<>>, printed |-> <<>>]

MetaIdle ==
    /\ meta_dict = <<>>
    /\ meta_res = NoMetadata
    /\ meta_pc = "idle"

InitMetaVars ==
    /\ meta_dict \in MetaRows
    /\ meta_res = NoMetadata
    /\ meta_pc = "call"

DictToMetadata ==
    /\ meta_pc = "call"
    /\ meta_res' = metadata_of(meta_dict)
    /\ meta_pc' = "done"
    /\ UNCHANGED <<meta_dict, key_vars, ts_vars, batch_vars>>

---------------------------------------------------------------------------
(* write_metadata and update_pdfs.  A file name is the sequence of its     *)
(* parts, 'modified-' prefixes and a base name; the PDF directory maps the *)
(* name of each file in it to the metadata the file holds.                 *)

\* os.path.join(dirname(filename), prefix + basename(filename)) for a name with no directory part
add_filename_prefix(filename, prefix) == <<prefix>> \o filename

\* PdfWriter.add_metadata(src) then add_metadata(new): new overwrites, the rest is kept
merged(src, new) ==
    [k \in DOMAIN src \cup DOMAIN new |-> IF k \in DOMAIN new THEN new[k] ELSE src[k]]

\* the directory after write_metadata(filename, metadata)
write_metadata(dir, filename, metadata) ==
    LET filename_modified == add_filename_prefix(filename, "modified-") IN
    [f \in DOMAIN dir \cup {filename_modified} |->
        IF f = filename_modified THEN merged(dir[filename], metadata) ELSE dir[f]]

SkipLine == <<"File '{filename}' does not exist. Skipping.">>

\* the turn of the loop without its os.path.isfile test: PdfReader raises on a
\* file that does not exist
update_pdfs_row_no_isfile(dir, row) ==
    IF row.Filename \in DOMAIN dir
    THEN [dir |-> write_metadata(dir, row.Filename, metadata_of(row.items).val),
          calls |-> <<[filename |-> row.Filename, metadata |-> metadata_of(row.items).val]>>,
          printed |-> <<>>,
          exc |-> metadata_of(row.items).exc]
    ELSE [dir |-> dir, calls |-> <<>>, printed |-> <<>>, exc |-> "FileNotFoundError"]

\* One turn of the loop of update_pdfs on a row [Filename, items]: the directory
\* after it, the write_metadata calls it made, the lines it printed and the
\* exception that left it ("" if none).
update_pdfs_row(dir, row) ==
    LET filename == row.Filename IN
    IF filename \in DOMAIN dir
    THEN LET m == metadata_of(row.items)
             unknown == [i \in DOMAIN m.printed |-> <<"Unknown Key:", m.printed[i]>>]
         IN IF m.exc # ""
            THEN [dir |-> dir, calls |-> <<>>, printed |-> unknown, exc |-> m.exc]
            ELSE [dir |-> write_metadata(dir, filename, m.val),
                  calls |-> <<[filename |-> filename, metadata |-> m.val]>>,
                  printed |-> unknown,
                  exc |-> ""]
    ELSE [dir |-> dir, calls |-> <<>>, printed |-> <<SkipLine>>, exc |-> ""]

\* the number of rows of the CSV file
MaxRows == 3

A_PDF == <<"a.pdf">>
B_PDF == <<"b.pdf">>
FileNames == {A_PDF, B_PDF, add_filename_prefix(A_PDF, "modified-")}

OldMetadata == dict(<< <<"/Title", PyStr(<<"O", "l", "d">>)>>, <<"/Producer", PyStr(<<"p">>)>> >>)

Directories ==
    {[f \in D |-> md] : D \in {{A_PDF}, {A_PDF, B_PDF}}, md \in {dict(<<>>), OldMetadata}}

RowItems == {
    <<>>,
    << <<"Title", <<"X">>>> >>,
    << <<"Reference", <<"4", "6", "7">>>>, <<"Title", <<"X">>>> >>,
    << <<"Title", <<"X">>>>, <<"Key", <<"B", FLAT, SP, "M", "i", "n", "o", "r">>>> >>,
    << <<"Key", Name3("G", Sharp, Major)>>, <<"Title", <<"X">>>> >> }

Rows == [Filename : FileNames, items : RowItems]

BatchIdle ==
    /\ fs = <<>>
    /\ fs0 = <<>>
    /\ data = <<>>
    /\ writes = <<>>
    /\ stdout = <<>>
    /\ batch_exc = ""
    /\ batch_pc = "idle"

InitBatchVars ==
    /\ fs0 \in Directories
    /\ fs = fs0
    /\ data = <<>>
    /\ writes = <<>>
    /\ stdout = <<>>
    /\ batch_exc = ""
    /\ batch_pc = "loop"

\* for row in data: the next row of the CSV file is read and handled
UpdatePdfsRow ==
    /\ batch_pc = "loop"
    /\ Len(data) < MaxRows
    /\ \E row \in Rows :
        \E r \in {update_pdfs_row(fs, row)} :
        /\ data' = Append(data, row)
        /\ fs' = r.dir
        /\ writes' = writes \o r.calls
        /\ stdout' = stdout \o r.printed
        /\ batch_exc' = r.exc
        /\ batch_pc' = IF r.exc # "" THEN "raised" ELSE "loop"
    /\ UNCHANGED <<fs0, key_vars, ts_vars, meta_vars>>

\* the CSV file has no more rows: update_pdfs returns
UpdatePdfsEnd ==
    /\ batch_pc = "loop"
    /\ batch_pc' = "done"
    /\ UNCHANGED <<fs, fs0, data, writes, stdout, batch_exc, key_vars, ts_vars, meta_vars>>

---------------------------------------------------------------------------
(* The specifications: one per part of the program.                        *)

InitKey == InitKeyVars /\ TsIdle /\ MetaIdle /\ BatchIdle
NextKey == ParseKey
SpecKey == InitKey /\ [][NextKey]_vars

InitTimestamp == KeyIdle /\ InitTsVars /\ MetaIdle /\ BatchIdle
NextTimestamp == FmtTimestamp \/ ParseTimestampStr
SpecTimestamp == InitTimestamp /\ [][NextTimestamp]_vars

InitMeta == KeyIdle /\ TsIdle /\ InitMetaVars /\ BatchIdle
NextMeta == DictToMetadata
SpecMeta == InitMeta /\ [][NextMeta]_vars

InitBatch == KeyIdle /\ TsIdle /\ MetaIdle /\ InitBatchVars
NextBatch == UpdatePdfsRow \/ UpdatePdfsEnd
SpecBatch == InitBatch /\ [][NextBatch]_vars

---------------------------------------------------------------------------
(* Properties of parse_key (SpecKey).                                      *)

RECURSIVE spell_out(_)
\* a name with each accidental glyph written as its word
spell_out(s) ==
    IF Len(s) = 0 THEN <<>>
    ELSE (IF s[1] = FLAT THEN lower(Flat)
          ELSE IF s[1] = SHARP THEN lower(Sharp)
          ELSE <<s[1]>>) \o spell_out(Tail(s))

\* s is a spelling of the canonical name of pair p: the same letters once case,
\* spaces and the glyph-or-word choice are set aside
IsSpellingOf(s, p) ==
    spell_out(lower(remove_char(s, SP))) = spell_out(lower(remove_char(KEY_MAP[p], SP)))

\* C1: parse_key returns p for every spelling variant (glyph or word accidental,
\* any letter case, any spaces) of the canonical name of each of the 30 pairs p,
\* the 14 natural-note names included.
C1_CanonicalNamesParse ==
    key_pc = "done" =>
        \A p \in KeyPairs : IsSpellingOf(key, p) => key_res = Returned(p)

\* s names the key of pair p as parse_key reads names: the note letter, then
\* the accidental of the canonical name (or none), and at the end the mode word
\* of the canonical name, Major being also meant by no mode word
NamesKey(s, p) ==
    LET k == spell_out(lower(remove_char(s, SP)))
        name == KEY_MAP[p]
        has_acc == Len(name) > 8
        acc == IF has_acc THEN lower(SubSeq(name, 3, Len(name) - 6)) ELSE <<>>
        mode == IF p[2] = 1 THEN lower(Minor) ELSE lower(Major)
    IN /\ Len(k) > 0
       /\ upper(<<k[1]>>) = <<name[1]>>
       /\ IF has_acc THEN startswith(slice_from(k, 1), acc)
          ELSE ~startswith(slice_from(k, 1), lower(Flat))
               /\ ~startswith(slice_from(k, 1), lower(Sharp))
       /\ \/ endswith(k, mode)
          \/ p[2] = 0 /\ ~endswith(k, lower(Minor))

\* C2: parse_key never raises; an input that is empty or all spaces gives None;
\* and a pair is returned only for an input that names that pair's key.
C2_NeverRaises ==
    key_pc = "done" =>
        /\ key_res.exc = ""
        /\ remove_char(key, SP) = <<>> => key_res.val = None
        /\ key_res.val # None => key_res.val \in KeyPairs /\ NamesKey(key, key_res.val)

\* C10: for every non-empty input parse_key determines a mode: Minor when the
\* space-stripped, lower-cased input ends with 'minor', Major otherwise, so an
\* input ending with neither word gives what the input with ' major' appended gives.
C10_ModeAlwaysDetermined ==
    (key_pc = "done" /\ Len(key) > 0) =>
        /\ key_res.exc = ""
        /\ key_res.val # None =>
              key_res.val[2] = (IF endswith(stripped(key), lower(Minor)) THEN 1 ELSE 0)
        /\ (~endswith(stripped(key), lower(Minor)) /\ ~endswith(stripped(key), lower(Major))) =>
              key_res = parse_key(key \o <<SP>> \o lower(Major))

---------------------------------------------------------------------------
(* Properties of the timestamp codec (SpecTimestamp).                      *)

\* the offset is absent or a whole number of minutes
WholeMinuteOffset(t) == t.tzinfo = None \/ t.tzinfo[1] % 60 = 0

AllDigits(s) == \A i \in DOMAIN s : s[i] \in DIGIT

\* s is sign, two digits, quote, two digits, quote (quoted) or sign and four
\* digits (not quoted), for an offset of less than a day
IsOffsetText(s, quoted) ==
    /\ Len(s) = (IF quoted THEN 7 ELSE 5)
    /\ s[1] \in SIGN
    /\ AllDigits(SubSeq(s, 2, 3))
    /\ IF quoted
       THEN s[4] = QUOTE /\ AllDigits(SubSeq(s, 5, 6)) /\ s[7] = QUOTE
            /\ to_int(SubSeq(s, 5, 6)) <= 59
       ELSE AllDigits(SubSeq(s, 4, 5)) /\ to_int(SubSeq(s, 4, 5)) <= 59
    /\ to_int(SubSeq(s, 2, 3)) <= 23

\* s is D:YYYYMMDDHHMMSS, the fields those of a date and a time of day,
\* optionally followed by an offset
MatchesFormat(s, quoted) ==
    /\ Len(s) >= 16
    /\ SubSeq(s, 1, 2) = <<"D", ":">>
    /\ AllDigits(SubSeq(s, 3, 16))
    /\ valid_datetime(to_int(SubSeq(s, 3, 6)), to_int(SubSeq(s, 7, 8)), to_int(SubSeq(s, 9, 10)),
                      to_int(SubSeq(s, 11, 12)), to_int(SubSeq(s, 13, 14)),
                      to_int(SubSeq(s, 15, 16)), None)
    /\ Len(s) > 16 => IsOffsetText(SubSeq(s, 17, Len(s)), quoted)

\* C3: parse_timestamp_str(fmt_timestamp(t)) = t for every t whose offset is
\* absent or a whole number of minutes, and
\* fmt_timestamp(parse_timestamp_str(s)) = s for every well-formed s.
C3_RoundTrip ==
    /\ (/\ ts_orig # NoTimestamp
        /\ WholeMinuteOffset(ts_orig)
        /\ Len(ts_ops) >= 2) => (ts_exc = "" /\ timestamp = ts_orig)
    /\ (/\ ts_orig = NoTimestamp
        /\ MatchesFormat(ts_orig_str, TRUE)
        /\ Len(ts_ops) >= 1) => (ts_exc = "" /\ (Len(ts_ops) >= 2 => timestamp_str = ts_orig_str))

\* C4: fmt_timestamp gives 'D:' and exactly 14 digits, the fields zero-padded;
\* then nothing for a datetime with no offset, and sign, two-digit hours, quote,
\* two-digit minutes, quote for one with a whole-minute offset.
C4_FmtShape ==
    (/\ ts_orig # NoTimestamp
     /\ WholeMinuteOffset(ts_orig)
     /\ ts_ops = <<"fmt_timestamp">>) =>
        LET s == timestamp_str
            a == IF ts_orig.tzinfo = None THEN 0
                 ELSE IF ts_orig.tzinfo[1] < 0 THEN -ts_orig.tzinfo[1] ELSE ts_orig.tzinfo[1]
        IN /\ Len(s) = (IF ts_orig.tzinfo = None THEN 16 ELSE 23)
           /\ SubSeq(s, 1, 2) = <<"D", ":">>
           /\ AllDigits(SubSeq(s, 3, 16))
           /\ to_int(SubSeq(s, 3, 6)) = ts_orig.year
           /\ to_int(SubSeq(s, 7, 8)) = ts_orig.month
           /\ to_int(SubSeq(s, 9, 10)) = ts_orig.day
           /\ to_int(SubSeq(s, 11, 12)) = ts_orig.hour
           /\ to_int(SubSeq(s, 13, 14)) = ts_orig.minute
           /\ to_int(SubSeq(s, 15, 16)) = ts_orig.second
           /\ ts_orig.tzinfo # None =>
                /\ s[17] = (IF ts_orig.tzinfo[1] < 0 THEN "-" ELSE "+")
                /\ AllDigits(SubSeq(s, 18, 19)) /\ to_int(SubSeq(s, 18, 19)) = a \div 3600
                /\ s[20] = QUOTE
                /\ AllDigits(SubSeq(s, 21, 22)) /\ to_int(SubSeq(s, 21, 22)) = (a % 3600) \div 60
                /\ s[23] = QUOTE

\* C5: parse_timestamp_str raises for every str that, its trailing offset
\* rewritten, does not match D:YYYYMMDDHHMMSS[+-HHmm], and accepts exactly the
\* strs that do; D:20231217105600-05'00' gives 2023-12-17 10:56:00 at -05:00.
C5_AcceptsExactlyTheFormat ==
    (ts_orig = NoTimestamp /\ ts_ops = <<"parse_timestamp_str">>) =>
        /\ (ts_exc = "") <=> MatchesFormat(RE_OFFSET_sub(ts_orig_str), FALSE)
        /\ ts_exc \in {"", "ValueError"}
        /\ ts_orig_str = <<"D", ":", "2", "0", "2", "3", "1", "2", "1", "7", "1", "0", "5", "6",
                           "0", "0", "-", "0", "5", QUOTE, "0", "0", QUOTE>>
              => timestamp = datetime(2023, 12, 17, 10, 56, 0, <<-18000>>)

---------------------------------------------------------------------------
(* Properties of dict_to_metadata (SpecMeta).                              *)

\* the static name table as the field-mapping layer is described
NameTable ==
    [n \in {"Composer", "Title", "Genre", "Tags", "Rating", "Difficulty", "Duration"} |->
        CASE n = "Composer" -> "/Author"
          [] n = "Title" -> "/Title"
          [] n = "Genre" -> "/Subject"
          [] n = "Tags" -> "/Keywords"
          [] n = "Rating" -> "/rating"
          [] n = "Difficulty" -> "/difficulty"
          [] n = "Duration" -> "/duration"]

HasKeyField(row) == \E i \in DOMAIN row : row[i][1] = "Key"

RECURSIVE TablePairs(_)
\* one pair (target identifier, value) per field of the row named in the table, in row order
TablePairs(row) ==
    IF Len(row) = 0 THEN <<>>
    ELSE (IF row[1][1] \in DOMAIN NameTable
          THEN << <<NameTable[row[1][1]], PyStr(row[1][2])>> >>
          ELSE <<>>) \o TablePairs(Tail(row))

\* C6: for a row with no 'Key' field dict_to_metadata yields exactly one pair
\* (target identifier, value unchanged) per field named in the table and nothing
\* for any other field, wherever the unrecognised names stand in the row.
C6_PlainFieldsMapped ==
    (meta_pc = "done" /\ ~HasKeyField(meta_dict)) =>
        /\ meta_res.exc = ""
        /\ meta_res.yielded = TablePairs(meta_dict)
        /\ DOMAIN meta_res.val = {NameTable[meta_dict[i][1]] :
                                    i \in {j \in DOMAIN meta_dict : meta_dict[j][1] \in DOMAIN NameTable}}
        /\ \A i \in DOMAIN meta_dict :
              meta_dict[i][1] \in DOMAIN NameTable =>
                  meta_res.val[NameTable[meta_dict[i][1]]] = PyStr(meta_dict[i][2])

\* an unrecognised name stands first in a row of three and the two fields after
\* it came out
C6_Witness ==
    /\ meta_pc = "done"
    /\ ~HasKeyField(meta_dict)
    /\ Len(meta_dict) = 3
    /\ meta_dict[1][1] = "Reference"
    /\ meta_dict[2][1] = "Composer"
    /\ Len(meta_res.yielded) = 2
    /\ meta_res.val["/Author"] = PyStr(meta_dict[2][2])

\* C7: for every row whose 'Key' value is a spelling of one of the 30 canonical
\* names the output holds '/keysf' = the accidental count and '/keysmi' = the
\* mode; and no output holds one of the two key fields without the other.
C7_KeyFieldsPaired ==
    meta_pc = "done" =>
        /\ \A i \in DOMAIN meta_dict : \A p \in KeyPairs :
              (meta_dict[i][1] = "Key" /\ IsSpellingOf(meta_dict[i][2], p)) =>
                  /\ meta_res.exc = ""
                  /\ {"/keysf", "/keysmi"} \subseteq DOMAIN meta_res.val
                  /\ meta_res.val["/keysf"] = PyInt(p[1])
                  /\ meta_res.val["/keysmi"] = PyInt(p[2])
        /\ ("/keysf" \in DOMAIN meta_res.val) <=> ("/keysmi" \in DOMAIN meta_res.val)

---------------------------------------------------------------------------
(* Properties of update_pdfs (SpecBatch).                                  *)

RECURSIVE FoundRows(_, _)
\* the rows whose file exists when the loop reaches them, every earlier such row
\* having left its 'modified-' copy in the directory
FoundRows(rows, names) ==
    IF Len(rows) = 0 THEN <<>>
    ELSE IF rows[1].Filename \in names
    THEN <<rows[1]>> \o FoundRows(Tail(rows),
                                  names \cup {add_filename_prefix(rows[1].Filename, "modified-")})
    ELSE FoundRows(Tail(rows), names)

SkipLines == Len(SelectSeq(stdout, LAMBDA line : line = SkipLine))

\* C8: a 'Key' value that does not resolve never aborts the batch: the row's
\* other recognised fields are still written for its file, and every later row
\* is still processed.
C8_KeyFailureIsLocal ==
    /\ batch_pc # "raised"
    /\ Len(writes) = Len(FoundRows(data, DOMAIN fs0))
    /\ \A i \in DOMAIN writes :
          LET row == FoundRows(data, DOMAIN fs0)[i] IN
          /\ writes[i].filename = row.Filename
          /\ \A j \in DOMAIN row.items :
                row.items[j][1] \in DOMAIN NameTable =>
                    /\ NameTable[row.items[j][1]] \in DOMAIN writes[i].metadata
                    /\ writes[i].metadata[NameTable[row.items[j][1]]] = PyStr(row.items[j][2])

\* C9: a row whose file does not exist is reported and skipped, it never stops
\* the loop, and in a batch with no other failure exactly the rows whose file
\* exists produce one write each, in order.
C9_MissingFilesSkipped ==
    /\ batch_exc # "" => data[Len(data)].Filename \in DOMAIN fs
    /\ batch_exc = "" =>
          /\ Len(writes) = Len(FoundRows(data, DOMAIN fs0))
          /\ \A i \in DOMAIN writes : writes[i].filename = FoundRows(data, DOMAIN fs0)[i].Filename
          /\ SkipLines = Len(data) - Len(writes)

\* the first row names a file that does not exist, the second one that does,
\* and the second was written
C9_Witness ==
    /\ batch_pc = "done"
    /\ batch_exc = ""
    /\ Len(data) = 2
    /\ data[1].Filename = B_PDF
    /\ B_PDF \notin DOMAIN fs0
    /\ data[2].Filename = A_PDF
    /\ Len(writes) = 1
    /\ writes[1].filename = A_PDF
    /\ SkipLines = 1

===========================================================================
